---- MODULE Spec2Model ----
(***************************************************************************)
(* Model of ipkg/blockchain: the consensus engine (Blockchain.Run), the    *)
(* proof-of-work miner (Blockchain.GenerateBlocks) and the chord based     *)
(* replication transport (ChordTransport).                                 *)
(***************************************************************************)
EXTENDS Integers, Sequences, FiniteSets, TLC

(* ------------------------------ bounds -------------------------------- *)
\* distinct transaction signatures
MaxSig == 2
\* transactions and blocks queued from outside (QueueTransaction, QueueBlock)
MaxIn == 2
\* latest value of the clock read at line 528
MaxTime == 1

(* ----------------------------- constants ------------------------------ *)
\* difficulties: a hash passes when its digest is a multiple of the
\* difficulty, so what passes for a block passes for a transaction
TRANSACTION_POW == 2
BLOCK_POW == 4
LocalKey == "local"
PeerKey == "peer"
NoHash == <<>>
NoSig == <<>>
NoBlock == [hdr |-> 0, sig |-> NoSig, txs |-> <<>>]
NoTx == [sig |-> 0, nonce |-> 0]
NoMsg == [kind |-> "none", data |-> <<>>]

VARIABLES heap, CurrentBlock, BlockSlice, pcE, tr, b, transDiff, nq,
          block, pcM, sleepTime, now, fresh, seedAt, seed, nin

evars == <<heap, CurrentBlock, BlockSlice, pcE, tr, b, transDiff, nq,
           block, pcM, sleepTime, now, fresh, seedAt, seed, nin>>

\* the transport
VARIABLES ring, outbound, poolNil, conns, tasks, nops, bch, panicked,
          down, pcS, inbound, handlers

tvars == <<ring, outbound, poolNil, conns, tasks, nops, bch, panicked,
           down, pcS, inbound, handlers>>

\* one call of DiffTransactionSlices(a, b): the arguments, the position of
\* the range loop over a, the cursor into b and the result so far
VARIABLES da, db, di, lastj, diff

dvars == <<da, db, di, lastj, diff>>

vars == <<evars, tvars, dvars>>

(* --------------------------- value types ------------------------------ *)
BlockHeader(o, p, m, t, n) ==
    [origin |-> o, prev |-> p, merkle |-> m, time |-> t, nonce |-> n]

\* the transactions a client or a peer can submit
TxInputs == [sig : 1..MaxSig, nonce : 0..1]

RECURSIVE SumSeq(_)
SumSeq(s) == IF s = <<>> THEN 0 ELSE Head(s) + SumSeq(Tail(s))

\* GenerateMerkelRoot: a digest of the ordered transaction signatures
GenerateMerkelRoot(txs) == [i \in 1..Len(txs) |-> txs[i].sig]

\* Block.Hash: a collision free digest of the header the block points to
HashHeader(h) == <<h.origin, h.prev, h.merkle, h.time, h.nonce>>
Hash(hp, blk) == HashHeader(hp[blk.hdr])

TxHash(t) == <<t.sig, t.nonce>>

Digest(hsh) ==
    IF Len(hsh) = 2 THEN hsh[1] + hsh[2]
    ELSE SumSeq(hsh[3]) + hsh[4] + hsh[5]
         + (IF hsh[2] = NoHash THEN 0 ELSE 1)

\* difficulty predicate: deterministic in (difficulty, hash)
CheckProofOfWork(prefix, hsh) == Digest(hsh) % prefix = 0

Sign(key, hsh) == <<key, hsh>>
SignatureVerify(key, sig, hsh) == sig = <<key, hsh>>

VerifyTransaction(t, prefix) == CheckProofOfWork(prefix, TxHash(t))

VerifyBlock(hp, blk, prefix) ==
    /\ CheckProofOfWork(prefix, Hash(hp, blk))
    /\ SignatureVerify(hp[blk.hdr].origin, blk.sig, Hash(hp, blk))

\* TransactionSlice.Exists: membership by signature
TxExists(txs, t) == \E i \in 1..Len(txs) : txs[i].sig = t.sig

\* BlockSlice.Exists: membership by hash
BlockExists(hp, bs, blk) ==
    \E i \in 1..Len(bs) : Hash(hp, bs[i]) = Hash(hp, blk)

\* BlockSlice.PreviousBlock: the last block, NoBlock when the chain is empty
PreviousBlock(bs) == IF Len(bs) = 0 THEN NoBlock ELSE bs[Len(bs)]

\* index of the first j >= from with ys[j].sig = sig, 0 when there is none
RECURSIVE FindFrom(_, _, _)
FindFrom(ys, from, sig) ==
    IF from > Len(ys) THEN 0
    ELSE IF ys[from].sig = sig THEN from
    ELSE FindFrom(ys, from + 1, sig)

RECURSIVE DiffFrom(_, _, _, _)
DiffFrom(xs, ys, i, cur) ==
    IF i > Len(xs) THEN <<>>
    ELSE LET j == FindFrom(ys, cur, xs[i].sig) IN
         IF j = 0 THEN <<xs[i]>> \o DiffFrom(xs, ys, i + 1, cur)
         ELSE DiffFrom(xs, ys, i + 1, j)

\* cursor lastj is 0-based in the source, 1-based here
DiffTransactionSlices(xs, ys) == DiffFrom(xs, ys, 1, 1)

\* longest argument of a call of DiffTransactionSlices
MaxLen == 3

SeqsUpTo(S, n) == UNION {[1..k -> S] : k \in 0..n}

\* the arguments of a call: a holds one transaction per signature value, b
\* any transaction, so that a match is seen to be by signature alone
DiffArgsA == SeqsUpTo([sig : 1..MaxSig, nonce : {0}], MaxLen)
DiffArgsB == SeqsUpTo(TxInputs, MaxLen)

\* line 564: the call starts with the cursor on the first element of b
DStart(xs, ys) ==
    /\ da = xs
    /\ db = ys
    /\ di = 1
    /\ lastj = 1
    /\ diff = <<>>

\* DiffStep with the cursor set behind the match
DiffStepPast ==
    /\ di <= Len(da)
    /\ LET j == FindFrom(db, lastj, da[di].sig) IN
       IF j = 0
       THEN /\ diff' = Append(diff, da[di])
            /\ UNCHANGED lastj
       ELSE /\ lastj' = j + 1
            /\ UNCHANGED diff
    /\ di' = di + 1
    /\ UNCHANGED <<da, db>>
    /\ UNCHANGED <<evars, tvars>>

\* lines 565-578: one turn of the range loop over a
DiffStep ==
    /\ di <= Len(da)
    /\ LET j == FindFrom(db, lastj, da[di].sig) IN
       IF j = 0
       THEN /\ diff' = Append(diff, da[di])
            /\ UNCHANGED lastj
       ELSE /\ lastj' = j
            /\ UNCHANGED diff
    /\ di' = di + 1
    /\ UNCHANGED <<da, db>>
    /\ UNCHANGED <<evars, tvars>>

(* ------------------------------ engine -------------------------------- *)
\* CreateNewBlock: NewBlock(prevBlockHash) with Origin set; returns the
\* new heap and the block value pointing at the fresh header
\* NewHeader without the hash of the previous block
NewHeaderNoPrev(hp, bs) == BlockHeader(LocalKey, NoHash, <<>>, 0, 0)

NewHeader(hp, bs) ==
    BlockHeader(LocalKey,
                IF Len(bs) = 0 THEN NoHash ELSE Hash(hp, PreviousBlock(bs)),
                <<>>, 0, 0)

CreateNewBlock(hp, bs) ==
    [hdr |-> Len(hp) + 1, sig |-> NoSig, txs |-> <<>>]

\* AddBlock keeping only the new block
AddBlockAlone(bs, blk) == <<blk>>

AddBlock(bs, blk) == Append(bs, blk)

\* headers still referenced by the chain, the pending block or the miner
Live(bs, cb, mb) == {bs[i].hdr : i \in 1..Len(bs)} \cup {cb.hdr, mb.hdr}

\* a header decoded for a dropped block is garbage once b goes out of scope
Release(hp, blk, bs, cb, mb) ==
    IF blk.hdr = Len(hp) /\ blk.hdr \notin Live(bs, cb, mb)
    THEN SubSeq(hp, 1, Len(hp) - 1) ELSE hp

EInit ==
    /\ heap = <<BlockHeader(LocalKey, NoHash, <<>>, 0, 0)>>
    /\ CurrentBlock = [hdr |-> 1, sig |-> NoSig, txs |-> <<>>]
    /\ BlockSlice = <<>>
    /\ pcE = "select"
    /\ tr = NoTx
    /\ b = NoBlock
    /\ transDiff = <<>>
    /\ nq = NoMsg
    /\ block = NoBlock
    /\ pcM = "wait0"
    /\ sleepTime = "ns"
    /\ now = 0
    /\ fresh = FALSE
    /\ seedAt = 0
    /\ seed = NoBlock
    /\ nin = 0

minerVars == <<block, pcM, sleepTime, fresh, seedAt, seed>>

\* case tr := <-bl.tq
RecvTx ==
    /\ pcE = "select"
    /\ nin < MaxIn
    /\ \E t \in TxInputs : tr' = t
    /\ nin' = nin + 1
    /\ pcE' = "tx_chk"
    /\ UNCHANGED <<heap, CurrentBlock, BlockSlice, b, transDiff, nq, now>>
    /\ UNCHANGED minerVars
    /\ UNCHANGED <<tvars, dvars>>

AddTransaction(txs, t) == Append(txs, t)

\* TxCheck without the duplicate test of line 462
TxCheckNoExists ==
    /\ pcE = "tx_chk"
    /\ IF ~VerifyTransaction(tr, TRANSACTION_POW)
       THEN /\ pcE' = "select"
            /\ tr' = NoTx
            /\ UNCHANGED CurrentBlock
       ELSE /\ CurrentBlock' = [CurrentBlock EXCEPT !.txs = AddTransaction(@, tr)]
            /\ pcE' = "tx_send"
            /\ UNCHANGED tr
    /\ UNCHANGED <<heap, BlockSlice, b, transDiff, nq, now, nin>>
    /\ UNCHANGED minerVars
    /\ UNCHANGED <<tvars, dvars>>

\* lines 462-470: duplicate and proof-of-work checks, then AddTransaction
TxCheck ==
    /\ pcE = "tx_chk"
    /\ IF TxExists(CurrentBlock.txs, tr) \/ ~VerifyTransaction(tr, TRANSACTION_POW)
       THEN /\ pcE' = "select"
            /\ tr' = NoTx
            /\ UNCHANGED CurrentBlock
       ELSE /\ CurrentBlock' = [CurrentBlock EXCEPT !.txs = AddTransaction(@, tr)]
            /\ pcE' = "tx_send"
            /\ UNCHANGED tr
    /\ UNCHANGED <<heap, BlockSlice, b, transDiff, nq, now, nin>>
    /\ UNCHANGED minerVars
    /\ UNCHANGED <<tvars, dvars>>

\* Handoff with a miner that goes on with the block it has
HandoffKeepsBlock ==
    /\ pcE \in {"tx_send", "blk_send"}
    /\ pcM \in {"wait0", "sel"}
    /\ block' = IF block = NoBlock THEN CurrentBlock ELSE block
    /\ seed' = CurrentBlock
    /\ pcM' = "merkle"
    /\ fresh' = TRUE
    /\ seedAt' = now
    /\ pcE' = IF pcE = "tx_send" THEN "tx_emit" ELSE "select"
    /\ UNCHANGED <<heap, CurrentBlock, BlockSlice, tr, b, transDiff, nq,
                   sleepTime, now, nin>>
    /\ UNCHANGED <<tvars, dvars>>

\* line 471 / line 512 meeting line 522 / line 550: the rendezvous on the
\* unbuffered interrupt channel; the miner's block is a copy of the Block
\* value, so it shares the header the engine's CurrentBlock points to.
\* seed keeps the value that was received.
Handoff ==
    /\ pcE \in {"tx_send", "blk_send"}
    /\ pcM \in {"wait0", "sel"}
    /\ block' = CurrentBlock
    /\ seed' = CurrentBlock
    /\ pcM' = "merkle"
    /\ fresh' = TRUE
    /\ seedAt' = now
    /\ pcE' = IF pcE = "tx_send" THEN "tx_emit" ELSE "select"
    /\ UNCHANGED <<heap, CurrentBlock, BlockSlice, tr, b, transDiff, nq,
                   sleepTime, now, nin>>
    /\ UNCHANGED <<tvars, dvars>>

\* lines 473-477: the transaction message goes out on nq
TxEmit ==
    /\ pcE = "tx_emit"
    /\ nq = NoMsg
    /\ nq' = [kind |-> "MESSAGE_SEND_TRANSACTION", data |-> TxHash(tr)]
    /\ tr' = NoTx
    /\ pcE' = "select"
    /\ UNCHANGED <<heap, CurrentBlock, BlockSlice, b, transDiff, now, nin>>
    /\ UNCHANGED minerVars
    /\ UNCHANGED <<tvars, dvars>>

\* the blocks a peer can queue: any header over the hashes this node has
\* produced, with or without a valid nonce and signature
PeerPrevs ==
    {NoHash, Hash(heap, CurrentBlock)}
        \cup {Hash(heap, BlockSlice[i]) : i \in 1..Len(BlockSlice)}

PeerTxs == {<<>>, <<[sig |-> 1, nonce |-> 1]>>}

\* case b := <-bl.bq, the sender being QueueBlock
RecvPeerBlock ==
    /\ pcE = "select"
    /\ nin < MaxIn
    /\ \E p \in PeerPrevs, txs \in PeerTxs, n \in 0..(BLOCK_POW - 1),
          signed \in BOOLEAN :
         LET h == BlockHeader(PeerKey, p, GenerateMerkelRoot(txs), 0, n) IN
         /\ heap' = Append(heap, h)
         /\ b' = [hdr |-> Len(heap) + 1,
                  sig |-> IF signed THEN Sign(PeerKey, HashHeader(h)) ELSE NoSig,
                  txs |-> txs]
    /\ nin' = nin + 1
    /\ pcE' = "blk_chk"
    /\ UNCHANGED <<CurrentBlock, BlockSlice, tr, transDiff, nq, now>>
    /\ UNCHANGED minerVars
    /\ UNCHANGED <<tvars, dvars>>

\* case b := <-bl.bq, the sender being the miner at line 537
RecvMinedBlock ==
    /\ pcE = "select"
    /\ pcM = "send"
    /\ b' = block
    /\ pcE' = "blk_chk"
    /\ pcM' = "sel"
    /\ sleepTime' = "day"
    /\ UNCHANGED <<heap, CurrentBlock, BlockSlice, tr, transDiff, nq, block,
                   now, fresh, seedAt, seed, nin>>
    /\ UNCHANGED <<tvars, dvars>>

\* lines 480-487
BlkCheck ==
    /\ pcE = "blk_chk"
    /\ IF BlockExists(heap, BlockSlice, b) \/ ~VerifyBlock(heap, b, BLOCK_POW)
       THEN /\ pcE' = "select"
            /\ b' = NoBlock
            /\ heap' = Release(heap, b, BlockSlice, CurrentBlock, block)
       ELSE /\ pcE' = "blk_link"
            /\ UNCHANGED <<b, heap>>
    /\ UNCHANGED <<CurrentBlock, BlockSlice, tr, transDiff, nq, now, nin>>
    /\ UNCHANGED minerVars
    /\ UNCHANGED <<tvars, dvars>>

\* line 489: the test that decides "Missing blocks in between"
IsGap(hp, blk, cb) == hp[blk.hdr].prev = Hash(hp, cb)

BlkLink ==
    /\ pcE = "blk_link"
    /\ IF IsGap(heap, b, CurrentBlock)
       THEN /\ pcE' = "select"
            /\ b' = NoBlock
            /\ heap' = Release(heap, b, BlockSlice, CurrentBlock, block)
       ELSE /\ pcE' = "blk_diff"
            /\ UNCHANGED <<b, heap>>
    /\ UNCHANGED <<CurrentBlock, BlockSlice, tr, transDiff, nq, now, nin>>
    /\ UNCHANGED minerVars
    /\ UNCHANGED <<tvars, dvars>>

\* lines 494-502
BlkDiff ==
    /\ pcE = "blk_diff"
    /\ transDiff' =
         IF heap[b.hdr].merkle # heap[CurrentBlock.hdr].merkle
         THEN DiffTransactionSlices(CurrentBlock.txs, b.txs)
         ELSE <<>>
    /\ BlockSlice' = AddBlock(BlockSlice, b)
    /\ pcE' = "blk_emit"
    /\ UNCHANGED <<heap, CurrentBlock, tr, b, nq, now, nin>>
    /\ UNCHANGED minerVars
    /\ UNCHANGED <<tvars, dvars>>

\* lines 505-510: the block message goes out, then the fresh pending block
BlkEmit ==
    /\ pcE = "blk_emit"
    /\ nq = NoMsg
    /\ nq' = [kind |-> "MESSAGE_SEND_BLOCK", data |-> Hash(heap, b)]
    /\ heap' = Append(heap, NewHeader(heap, BlockSlice))
    /\ CurrentBlock' = [CreateNewBlock(heap, BlockSlice) EXCEPT !.txs = transDiff]
    /\ transDiff' = <<>>
    /\ b' = NoBlock
    /\ pcE' = "blk_send"
    /\ UNCHANGED <<BlockSlice, tr, now, nin>>
    /\ UNCHANGED minerVars
    /\ UNCHANGED <<tvars, dvars>>

\* the consumer of the broadcast channel nq
NetRecv ==
    /\ nq # NoMsg
    /\ nq' = NoMsg
    /\ UNCHANGED <<heap, CurrentBlock, BlockSlice, pcE, tr, b, transDiff, now,
                   nin>>
    /\ UNCHANGED minerVars
    /\ UNCHANGED <<tvars, dvars>>

(* ------------------------------- miner -------------------------------- *)
engineVars == <<CurrentBlock, BlockSlice, pcE, tr, b, transDiff, nq, nin>>

\* line 526
MinerMerkle ==
    /\ pcM = "merkle"
    /\ heap' = [heap EXCEPT ![block.hdr].merkle = GenerateMerkelRoot(block.txs)]
    /\ pcM' = "nonce"
    /\ UNCHANGED <<block, sleepTime, now, fresh, seedAt, seed>>
    /\ UNCHANGED engineVars
    /\ UNCHANGED <<tvars, dvars>>

\* MinerNonce without the reset of line 527
MinerNonceKept ==
    /\ pcM = "nonce"
    /\ pcM' = "time"
    /\ UNCHANGED <<heap, block, sleepTime, now, fresh, seedAt, seed>>
    /\ UNCHANGED engineVars
    /\ UNCHANGED <<tvars, dvars>>

\* line 527
MinerNonce ==
    /\ pcM = "nonce"
    /\ heap' = [heap EXCEPT ![block.hdr].nonce = 0]
    /\ pcM' = "time"
    /\ UNCHANGED <<block, sleepTime, now, fresh, seedAt, seed>>
    /\ UNCHANGED engineVars
    /\ UNCHANGED <<tvars, dvars>>

\* line 528: time.Now() is read; the clock never goes back
MinerTime ==
    /\ pcM = "time"
    /\ \E t \in {now, IF now < MaxTime THEN now + 1 ELSE now} :
         /\ heap' = [heap EXCEPT ![block.hdr].time = t]
         /\ now' = t
    /\ pcM' = "pow"
    /\ UNCHANGED <<block, sleepTime, fresh, seedAt, seed>>
    /\ UNCHANGED engineVars
    /\ UNCHANGED <<tvars, dvars>>

\* MinerPow without the Len() > 0 test of line 533
MinerPowAnyLen ==
    /\ pcM = "pow"
    /\ fresh' = FALSE
    /\ IF CheckProofOfWork(BLOCK_POW, Hash(heap, block))
       THEN /\ block' = [block EXCEPT !.sig = Sign(LocalKey, Hash(heap, block))]
            /\ pcM' = "send"
            /\ UNCHANGED <<heap, sleepTime>>
       ELSE /\ heap' = [heap EXCEPT ![block.hdr].nonce = @ + 1]
            /\ pcM' = "sel"
            /\ sleepTime' = "ns"
            /\ UNCHANGED block
    /\ UNCHANGED <<now, seedAt, seed>>
    /\ UNCHANGED engineVars
    /\ UNCHANGED <<tvars, dvars>>

\* lines 532-547, up to the send of line 537
MinerPow ==
    /\ pcM = "pow"
    /\ IF Len(block.txs) > 0
       THEN /\ fresh' = FALSE
            /\ IF CheckProofOfWork(BLOCK_POW, Hash(heap, block))
               THEN /\ block' = [block EXCEPT !.sig = Sign(LocalKey, Hash(heap, block))]
                    /\ pcM' = "send"
                    /\ UNCHANGED <<heap, sleepTime>>
               ELSE /\ heap' = [heap EXCEPT ![block.hdr].nonce = @ + 1]
                    /\ pcM' = "sel"
                    /\ sleepTime' = "ns"
                    /\ UNCHANGED block
       ELSE /\ pcM' = "sel"
            /\ sleepTime' = "day"
            /\ UNCHANGED <<heap, block, fresh>>
    /\ UNCHANGED <<now, seedAt, seed>>
    /\ UNCHANGED engineVars
    /\ UNCHANGED <<tvars, dvars>>

\* line 553: the timer of the select fires
MinerTimeout ==
    /\ pcM = "sel"
    /\ pcM' = "pow"
    /\ UNCHANGED <<heap, block, sleepTime, now, fresh, seedAt, seed>>
    /\ UNCHANGED engineVars
    /\ UNCHANGED <<tvars, dvars>>

ENext ==
    \/ RecvTx \/ TxCheck \/ Handoff \/ TxEmit
    \/ RecvPeerBlock \/ RecvMinedBlock \/ BlkCheck \/ BlkLink \/ BlkDiff
    \/ BlkEmit \/ NetRecv
    \/ MinerMerkle \/ MinerNonce \/ MinerTime \/ MinerPow \/ MinerTimeout

(* ----------------------------- transport ------------------------------ *)
\* virtual nodes in the answer of ring.Lookup
MaxVnodes == 3
\* calls of BroadcastBlock/BroadcastTransaction, RequestBlocks, FirstBlock/
\* LastBlock
MaxOps == 2
\* connections listen accepts
MaxInbound == 2

Local == "local"
Hosts == {Local, "A", "B"}
\* two callers use the transport at the same time
Tasks == {"t1", "t2"}
InConns == 1..MaxInbound

\* the replica lists ring.Lookup can return
VnodeLists == UNION {[1..n -> Hosts] : n \in 0..MaxVnodes}

HostsOf(vl) == {vl[i] : i \in 1..Len(vl)}

\* UniqueHosts without the map: one entry per virtual node
UniqueHostsPerVnode(vl) == {vl}

\* UniqueHosts: one entry per host, in the order the map iteration yields
UniqueHosts(vl) ==
    LET m == HostsOf(vl) IN
    {out \in [1..Cardinality(m) -> m] : HostsOf(out) = m}

Count(seq, x) == Cardinality({i \in 1..Len(seq) : seq[i] = x})

\* var blk Block: no header until a response is decoded into it
ZeroBlock == [hasHeader |-> FALSE]
\* a caller between two calls; ret is the error its last call returned
IdleTask ==
    [pc |-> "idle", op |-> "none", hosts |-> <<>>, host |-> "", conn |-> 0,
     err |-> "nil", blk |-> ZeroBlock, sent |-> <<>>, ret |-> "nil"]

\* no request read yet
NoReq == [k |-> "none", ok |-> FALSE, v |-> FALSE]
\* req is the request last read on the connection, resp what was done for it
NoHandler == [pc |-> "none", closed |-> FALSE, req |-> NoReq, resp |-> "none"]

\* the transport with a given answer of ring.Lookup
TStart(vl) ==
    /\ ring = vl
    /\ outbound = [h \in Hosts |-> <<>>]
    /\ poolNil = FALSE
    /\ conns = <<>>
    /\ tasks = [t \in Tasks |-> IdleTask]
    /\ nops = 0
    /\ bch = {}
    /\ panicked = FALSE
    /\ down = FALSE
    /\ pcS = "idle"
    /\ inbound = {}
    /\ handlers = [c \in InConns |-> NoHandler]

poolVars == <<outbound, poolNil, conns>>
inVars == <<inbound, handlers>>
shutVars == <<down, pcS>>

\* connections some task holds or the pool lists; the others are garbage
Held(ts, ob) ==
    {ts[t].conn : t \in Tasks} \cup
    UNION {{ob[h][i] : i \in 1..Len(ob[h])} : h \in Hosts}

Collect(cs, ts, ob) == [i \in (DOMAIN cs) \cap Held(ts, ob) |-> cs[i]]

\* sock.Dial: a connection the transport has not seen before
FreshConn(cs) == CHOOSE i \in 1..(Cardinality(DOMAIN cs) + 1) : i \notin DOMAIN cs

\* lines 83-90 and 164-171: BroadcastBlock / BroadcastTransaction up to the
\* go statement.  When ring.Lookup fails the call returns its error (line
\* 167) and nothing is sent; otherwise it returns nil (line 184) and the
\* goroutine of line 170 goes on alone.
StartBroadcast(t) ==
    /\ ~panicked
    /\ tasks[t].pc = "idle"
    /\ nops < MaxOps
    /\ nops' = nops + 1
    /\ \E ok \in BOOLEAN :
         IF ok
         THEN \E hs \in UniqueHosts(ring) :
                tasks' = [tasks EXCEPT ![t] =
                    [IdleTask EXCEPT !.pc = "loop", !.op = "broadcast", !.hosts = hs]]
         ELSE tasks' = [tasks EXCEPT ![t] =
                    [IdleTask EXCEPT !.op = "broadcast", !.ret = "err"]]
    /\ UNCHANGED <<ring, bch, panicked>>
    /\ UNCHANGED <<poolVars, inVars, shutVars>>
    /\ UNCHANGED <<evars, dvars>>

\* lines 220-229: RequestBlocks for one hash
StartRequest(t) ==
    /\ ~panicked
    /\ tasks[t].pc = "idle"
    /\ nops < MaxOps
    /\ nops' = nops + 1
    /\ \E ok \in BOOLEAN :
         IF ok
         THEN \E hs \in UniqueHosts(ring) :
                tasks' = [tasks EXCEPT ![t] =
                    [IdleTask EXCEPT !.pc = "loop", !.op = "request", !.hosts = hs]]
         ELSE tasks' = [tasks EXCEPT ![t] = IdleTask]
    /\ UNCHANGED <<ring, bch, panicked>>
    /\ UNCHANGED <<poolVars, inVars, shutVars>>
    /\ UNCHANGED <<evars, dvars>>

\* lines 93-104: FirstBlock / LastBlock of a host
StartGetBlock(t) ==
    /\ ~panicked
    /\ tasks[t].pc = "idle"
    /\ nops < MaxOps
    /\ nops' = nops + 1
    /\ \E h \in Hosts \ {Local} :
         tasks' = [tasks EXCEPT ![t] =
             [IdleTask EXCEPT !.pc = "getconn", !.op = "getblock", !.host = h]]
    /\ UNCHANGED <<ring, bch, panicked>>
    /\ UNCHANGED <<poolVars, inVars, shutVars>>
    /\ UNCHANGED <<evars, dvars>>

\* lines 172-178 and 230-236: the next host, the local one skipped; sent
\* lists the hosts doRequest was called for
Loop(t) ==
    /\ ~panicked
    /\ tasks[t].pc = "loop"
    /\ LET T == tasks[t] IN
       IF T.hosts = <<>>
       THEN tasks' = [tasks EXCEPT ![t] = IdleTask]
       ELSE IF Head(T.hosts) = Local
       THEN tasks' = [tasks EXCEPT ![t].hosts = Tail(T.hosts)]
       ELSE tasks' = [tasks EXCEPT ![t] =
                [T EXCEPT !.hosts = Tail(T.hosts), !.host = Head(T.hosts),
                          !.sent = Append(T.sent, Head(T.hosts)),
                          !.pc = "getconn"]]
    /\ UNCHANGED <<ring, nops, bch, panicked>>
    /\ UNCHANGED <<poolVars, inVars, shutVars>>
    /\ UNCHANGED <<evars, dvars>>

\* GetConn with the connection left in the idle list
GetConnNoPop(t) ==
    /\ ~panicked
    /\ tasks[t].pc = "getconn"
    /\ LET T == tasks[t]
           c == outbound[T.host] IN
       IF Len(c) > 0
       THEN /\ tasks' = [tasks EXCEPT ![t].conn = Head(c), ![t].pc = "exchange"]
            /\ UNCHANGED <<outbound, conns>>
       ELSE \E dialed \in BOOLEAN :
              IF dialed
              THEN LET n == FreshConn(conns) IN
                   /\ conns' = [i \in DOMAIN conns \cup {n} |->
                                  IF i = n THEN [host |-> T.host, closed |-> FALSE]
                                  ELSE conns[i]]
                   /\ tasks' = [tasks EXCEPT ![t].conn = n, ![t].pc = "exchange"]
                   /\ UNCHANGED outbound
              ELSE /\ tasks' = [tasks EXCEPT ![t].err = "err", ![t].pc = "after"]
                   /\ UNCHANGED <<outbound, conns>>
    /\ UNCHANGED <<ring, poolNil, nops, bch, panicked>>
    /\ UNCHANGED <<inVars, shutVars>>
    /\ UNCHANGED <<evars, dvars>>

\* lines 131-148: pop an idle connection under the lock, else dial
GetConn(t) ==
    /\ ~panicked
    /\ tasks[t].pc = "getconn"
    /\ LET T == tasks[t]
           c == outbound[T.host] IN
       IF Len(c) > 0
       THEN /\ outbound' = [outbound EXCEPT ![T.host] = Tail(c)]
            /\ tasks' = [tasks EXCEPT ![t].conn = Head(c), ![t].pc = "exchange"]
            /\ UNCHANGED conns
       ELSE \E dialed \in BOOLEAN :
              IF dialed
              THEN LET n == FreshConn(conns) IN
                   /\ conns' = [i \in DOMAIN conns \cup {n} |->
                                  IF i = n THEN [host |-> T.host, closed |-> FALSE]
                                  ELSE conns[i]]
                   /\ tasks' = [tasks EXCEPT ![t].conn = n, ![t].pc = "exchange"]
                   /\ UNCHANGED outbound
              ELSE /\ tasks' = [tasks EXCEPT ![t].err = "err", ![t].pc = "after"]
                   /\ UNCHANGED <<outbound, conns>>
    /\ UNCHANGED <<ring, poolNil, nops, bch, panicked>>
    /\ UNCHANGED <<inVars, shutVars>>
    /\ UNCHANGED <<evars, dvars>>

\* what the remote end answers to a request-block-by-hash: a block, or the
\* empty block that says it has none
Responses == {[hasHeader |-> TRUE], ZeroBlock}

\* Exchange with a failed connection closed but given back to the pool
ExchangeKeepsFailed(t) ==
    /\ ~panicked
    /\ tasks[t].pc = "exchange"
    /\ LET T == tasks[t] IN
       \E outcome \in {"ok", "eof", "err"} :
         IF outcome = "ok"
         THEN /\ ~conns[T.conn].closed
              /\ \E r \in Responses :
                   /\ T.op = "broadcast" => r = ZeroBlock
                   /\ tasks' = [tasks EXCEPT ![t].pc = "return", ![t].blk = r]
              /\ UNCHANGED conns
         ELSE /\ tasks' = [tasks EXCEPT ![t].pc = "return",
                              ![t].err = IF outcome = "eof" THEN "nil" ELSE "err"]
              /\ conns' = [conns EXCEPT ![T.conn].closed = TRUE]
    /\ UNCHANGED <<ring, outbound, poolNil, nops, bch, panicked>>
    /\ UNCHANGED <<inVars, shutVars>>
    /\ UNCHANGED <<evars, dvars>>

\* lines 193-212 and 111-125: the writes and the read on the connection;
\* on an error the connection is closed and dropped, io.EOF becomes nil
Exchange(t) ==
    /\ ~panicked
    /\ tasks[t].pc = "exchange"
    /\ LET T == tasks[t] IN
       \E outcome \in {"ok", "eof", "err"} :
         IF outcome = "ok"
         THEN /\ ~conns[T.conn].closed
              /\ \E r \in Responses :
                   /\ T.op = "broadcast" => r = ZeroBlock
                   /\ tasks' = [tasks EXCEPT ![t].pc = "return", ![t].blk = r]
              /\ UNCHANGED conns
         ELSE LET ts == [tasks EXCEPT ![t].pc = "after", ![t].conn = 0,
                            ![t].err = IF outcome = "eof" THEN "nil" ELSE "err"] IN
              /\ tasks' = ts
              /\ conns' = Collect([conns EXCEPT ![T.conn].closed = TRUE], ts, outbound)
    /\ UNCHANGED <<ring, outbound, poolNil, nops, bch, panicked>>
    /\ UNCHANGED <<inVars, shutVars>>
    /\ UNCHANGED <<evars, dvars>>

\* lines 150-162: returnConn; a write into the nil map panics
ReturnConn(t) ==
    /\ ~panicked
    /\ tasks[t].pc = "return"
    /\ IF poolNil
       THEN /\ panicked' = TRUE
            /\ UNCHANGED <<outbound, tasks>>
       ELSE /\ outbound' = [outbound EXCEPT
                   ![conns[tasks[t].conn].host] = Append(@, tasks[t].conn)]
            /\ tasks' = [tasks EXCEPT ![t].pc = "after", ![t].conn = 0]
            /\ UNCHANGED panicked
    /\ UNCHANGED <<ring, poolNil, conns, nops, bch>>
    /\ UNCHANGED <<inVars, shutVars>>
    /\ UNCHANGED <<evars, dvars>>

\* lines 236-245 without the test of line 241
ForwardedUnchecked(T) ==
    IF T.err = "nil" THEN {T.blk} ELSE {}

\* lines 236-245: what RequestBlocks sends on to the engine
Forwarded(T) ==
    IF T.err = "nil" /\ T.blk.hasHeader THEN {T.blk} ELSE {}

\* the caller's code after doRequest / getBlockByType returned
After(t) ==
    /\ ~panicked
    /\ tasks[t].pc = "after"
    /\ LET T == tasks[t] IN
       CASE T.op = "broadcast" ->
              /\ tasks' = [tasks EXCEPT ![t].pc = "loop", ![t].err = "nil",
                                        ![t].blk = ZeroBlock, ![t].host = ""]
              /\ UNCHANGED bch
         [] T.op = "request" ->
              /\ tasks' = [tasks EXCEPT ![t].pc = "loop", ![t].err = "nil",
                                        ![t].blk = ZeroBlock, ![t].host = ""]
              /\ bch' = bch \cup Forwarded(T)
         [] OTHER ->
              /\ tasks' = [tasks EXCEPT ![t] = [IdleTask EXCEPT !.ret = T.err]]
              /\ UNCHANGED bch
    /\ UNCHANGED <<ring, nops, panicked>>
    /\ UNCHANGED <<poolVars, inVars, shutVars>>
    /\ UNCHANGED <<evars, dvars>>

\* line 342
ShutdownSock ==
    /\ ~panicked
    /\ pcS = "idle"
    /\ down' = TRUE
    /\ pcS' = "inbound"
    /\ UNCHANGED <<ring, tasks, nops, bch, panicked>>
    /\ UNCHANGED <<poolVars, inVars>>
    /\ UNCHANGED <<evars, dvars>>

\* lines 345-349
ShutdownInbound ==
    /\ ~panicked
    /\ pcS = "inbound"
    /\ handlers' = [c \in InConns |->
          IF c \in inbound THEN [handlers[c] EXCEPT !.closed = TRUE]
          ELSE handlers[c]]
    /\ pcS' = "outbound"
    /\ UNCHANGED <<ring, tasks, nops, bch, panicked, down, inbound>>
    /\ UNCHANGED poolVars
    /\ UNCHANGED <<evars, dvars>>

\* lines 352-359
ShutdownOutbound ==
    /\ ~panicked
    /\ pcS = "outbound"
    /\ conns' = Collect(conns, tasks, [h \in Hosts |-> <<>>])
    /\ outbound' = [h \in Hosts |-> <<>>]
    /\ poolNil' = TRUE
    /\ pcS' = "idle"
    /\ UNCHANGED <<ring, tasks, nops, bch, panicked, down>>
    /\ UNCHANGED inVars
    /\ UNCHANGED <<evars, dvars>>

\* lines 252-263: listen accepts and registers a connection
Accept(c) ==
    /\ ~panicked
    /\ ~down
    /\ handlers[c].pc = "none"
    /\ inbound' = inbound \cup {c}
    /\ handlers' = [handlers EXCEPT ![c].pc = "serving"]
    /\ UNCHANGED <<ring, tasks, nops, bch, panicked>>
    /\ UNCHANGED <<poolVars, shutVars>>
    /\ UNCHANGED <<evars, dvars>>

Kinds == {"reqTypeFirstBlock", "reqTypeLastBlock", "reqTypeBlock",
          "reqTypeBlockBroadcast", "reqTypeTxBroadcast"}

\* what one turn of the servicing loop can meet: the header read fails
\* ("error"), the kind is unknown, or a known kind whose payload read and
\* response write succeed (ok) or not; v is store.Get finding the block
\* (reqTypeBlock) or the broadcast block having a header
HandleInputs ==
    {[k |-> k, ok |-> FALSE, v |-> FALSE] : k \in Kinds \cup {"error", "unknown"}}
      \cup {[k |-> k, ok |-> TRUE, v |-> v] :
               k \in {"reqTypeBlock", "reqTypeBlockBroadcast"}, v \in BOOLEAN}
      \cup {[k |-> k, ok |-> TRUE, v |-> FALSE] :
               k \in Kinds \ {"reqTypeBlock", "reqTypeBlockBroadcast"}}

\* lines 289-321: the response written for a pull request, or the queue a
\* broadcast is forwarded to
Answer(in) ==
    CASE in.k = "reqTypeBlock" -> IF in.v THEN "block" ELSE "sentinel"
      [] in.k = "reqTypeFirstBlock" -> "first"
      [] in.k = "reqTypeLastBlock" -> "last"
      [] in.k = "reqTypeBlockBroadcast" -> "to_bch"
      [] OTHER -> "to_tch"

\* Handle with a block the store does not have taken for an error
HandleMissEnds(c) ==
    /\ ~panicked
    /\ handlers[c].pc = "serving"
    /\ \E in \in HandleInputs :
         LET req == [in EXCEPT !.ok = in.ok /\ ~handlers[c].closed]
             miss == in.k = "reqTypeBlock" /\ ~in.v IN
         IF ~req.ok \/ miss
         THEN handlers' = [handlers EXCEPT ![c].pc = "exit", ![c].req = req,
                                           ![c].resp = "none"]
         ELSE handlers' = [handlers EXCEPT ![c].req = req, ![c].resp = Answer(in)]
    /\ UNCHANGED <<ring, tasks, nops, bch, panicked, inbound>>
    /\ UNCHANGED <<poolVars, shutVars>>
    /\ UNCHANGED <<evars, dvars>>

\* lines 279-336: one turn of the servicing loop.  A header is read and
\* served and the loop goes on; any error of a read or a write (all of them
\* fail on a connection Shutdown has closed) leaves the loop.
Handle(c) ==
    /\ ~panicked
    /\ handlers[c].pc = "serving"
    /\ \E in \in HandleInputs :
         LET req == [in EXCEPT !.ok = in.ok /\ ~handlers[c].closed] IN
         IF ~req.ok
         THEN handlers' = [handlers EXCEPT ![c].pc = "exit", ![c].req = req,
                                           ![c].resp = "none"]
         ELSE handlers' = [handlers EXCEPT ![c].req = req, ![c].resp = Answer(in)]
    /\ UNCHANGED <<ring, tasks, nops, bch, panicked, inbound>>
    /\ UNCHANGED <<poolVars, shutVars>>
    /\ UNCHANGED <<evars, dvars>>

\* lines 269-274: the deferred cleanup when handleConn returns
HandleExit(c) ==
    /\ ~panicked
    /\ handlers[c].pc = "exit"
    /\ handlers' = [handlers EXCEPT ![c] = NoHandler]
    /\ inbound' = inbound \ {c}
    /\ UNCHANGED <<ring, tasks, nops, bch, panicked>>
    /\ UNCHANGED <<poolVars, shutVars>>
    /\ UNCHANGED <<evars, dvars>>

TNext ==
    \/ \E t \in Tasks : StartBroadcast(t)
    \/ \E t \in Tasks : StartRequest(t)
    \/ \E t \in Tasks : StartGetBlock(t)
    \/ \E t \in Tasks : Loop(t)
    \/ \E t \in Tasks : GetConn(t)
    \/ \E t \in Tasks : Exchange(t)
    \/ \E t \in Tasks : ReturnConn(t)
    \/ \E t \in Tasks : After(t)
    \/ ShutdownSock \/ ShutdownInbound \/ ShutdownOutbound

\* one caller that only broadcasts
BNext ==
    \/ StartBroadcast("t1") \/ Loop("t1") \/ GetConn("t1") \/ Exchange("t1")
    \/ ReturnConn("t1") \/ After("t1")

INext ==
    \/ \E c \in InConns : Accept(c)
    \/ \E c \in InConns : Handle(c)
    \/ \E c \in InConns : HandleExit(c)
    \/ ShutdownSock \/ ShutdownInbound \/ ShutdownOutbound

(* --------------------------- specifications --------------------------- *)
\* the engine and the miner
Init == EInit /\ TStart(<<>>) /\ DStart(<<>>, <<>>)
Next == ENext
Spec == Init /\ [][Next]_vars

\* the transport: concurrent outbound requests, broadcasts and Shutdown,
\* the replica set being two virtual nodes of peer A and the local node
TInit == EInit /\ TStart(<<"A", Local, "A">>) /\ DStart(<<>>, <<>>)
TSpec == TInit /\ [][TNext]_vars

\* the transport: broadcasts over every replica list
BInit == EInit /\ DStart(<<>>, <<>>) /\ \E vl \in VnodeLists : TStart(vl)
BSpec == BInit /\ [][BNext]_vars

\* the transport: inbound servicing and Shutdown
InInit == EInit /\ TStart(<<>>) /\ DStart(<<>>, <<>>)
InSpec == InInit /\ [][INext]_vars

\* calls of DiffTransactionSlices over every pair of arguments
DInit ==
    /\ EInit
    /\ TStart(<<>>)
    /\ \E xs \in DiffArgsA, ys \in DiffArgsB : DStart(xs, ys)
DNext == DiffStep
DSpec == DInit /\ [][DNext]_vars

\* Scheduling of the Go runtime: every goroutine that can run does run, a
\* timer that was set fires, and a channel operation that is ready again and
\* again in a select is taken.  Inputs (RecvTx, RecvPeerBlock) may stop.
FairSpec ==
    /\ Spec
    /\ WF_vars(TxCheck) /\ WF_vars(TxEmit)
    /\ WF_vars(BlkCheck) /\ WF_vars(BlkLink) /\ WF_vars(BlkDiff)
    /\ WF_vars(BlkEmit) /\ WF_vars(NetRecv)
    /\ WF_vars(MinerMerkle) /\ WF_vars(MinerNonce) /\ WF_vars(MinerTime)
    /\ WF_vars(MinerPow) /\ WF_vars(MinerTimeout)
    /\ SF_vars(Handoff) /\ SF_vars(RecvMinedBlock)

(* ------------------------------ claims -------------------------------- *)
TipHash ==
    IF Len(BlockSlice) = 0 THEN NoHash ELSE Hash(heap, PreviousBlock(BlockSlice))

\* C1: a verified block that is not in the chain and whose previous-hash
\* differs from the hash of the chain tip is treated as a gap: the engine
\* goes back to its select with the chain, the broadcast queue, CurrentBlock
\* and the miner's seed all unchanged.
C1_GapIsDropped ==
    [][(pcE = "blk_link" /\ pcE' # pcE /\ heap[b.hdr].prev # TipHash)
         => (/\ pcE' = "select"
             /\ BlockSlice' = BlockSlice
             /\ nq' = nq
             /\ CurrentBlock' = CurrentBlock
             /\ block' = block)]_vars

\* C2: the chain is linked: every block after the first names the hash of
\* the block before it as its previous-hash.
C2_ChainLinked ==
    \A i \in 2..Len(BlockSlice) :
        heap[BlockSlice[i].hdr].prev = Hash(heap, BlockSlice[i - 1])

\* C3: whenever the engine offers a reseed on the handoff queue, the miner
\* eventually accepts it.
EngineOffers == pcE \in {"tx_send", "blk_send"}
C3_HandoffAccepted == EngineOffers ~> ~EngineOffers

\* C4: the miner never is about to write a header that CurrentBlock points
\* to while the engine is about to read that header.
MinerWritesHeader ==
    \/ pcM \in {"merkle", "nonce", "time"}
    \/ /\ pcM = "pow"
       /\ Len(block.txs) > 0
       /\ ~CheckProofOfWork(BLOCK_POW, Hash(heap, block))
EngineReadsPending == pcE \in {"blk_link", "blk_diff"}
C4_NoHeaderRace ==
    ~(MinerWritesHeader /\ EngineReadsPending /\ block.hdr = CurrentBlock.hdr)

\* C5: a transaction that is a duplicate or fails its proof of work leaves
\* CurrentBlock unchanged, reseeds nothing and emits nothing; CurrentBlock
\* never holds two transactions with one signature.
Rejected(t) ==
    TxExists(CurrentBlock.txs, t) \/ ~VerifyTransaction(t, TRANSACTION_POW)
NoDuplicateSignature ==
    \A i, j \in 1..Len(CurrentBlock.txs) :
        CurrentBlock.txs[i].sig = CurrentBlock.txs[j].sig => i = j
C5_RejectedTxIsDropped ==
    /\ []NoDuplicateSignature
    /\ [][(pcE = "tx_chk" /\ pcE' # pcE /\ Rejected(tr))
            => (/\ pcE' = "select"
                /\ CurrentBlock' = CurrentBlock
                /\ nq' = nq
                /\ block' = block
                /\ pcM' = pcM)]_vars
\* the same signature arrives a second time and is about to be dropped
C5_Witness ==
    /\ pcE = "tx_chk"
    /\ TxExists(CurrentBlock.txs, tr)
    /\ VerifyTransaction(tr, TRANSACTION_POW)
    /\ Len(CurrentBlock.txs) = 1

\* C6: a block the miner sends on the result queue has at least one
\* transaction, meets the block difficulty and is signed over its hash.
C6_EmittedBlockSealed ==
    pcM = "send" =>
        /\ Len(block.txs) > 0
        /\ CheckProofOfWork(BLOCK_POW, Hash(heap, block))
        /\ block.sig = Sign(LocalKey, Hash(heap, block))
C6_Witness == pcM = "send" /\ heap[block.hdr].nonce > 0

\* C7: at the first proof-of-work evaluation after a seed was accepted the
\* nonce is 0 and the Merkle root and the timestamp were recomputed.
C7_ReseedResets ==
    (pcM = "pow" /\ fresh) =>
        /\ heap[block.hdr].nonce = 0
        /\ heap[block.hdr].merkle = GenerateMerkelRoot(block.txs)
        /\ heap[block.hdr].time >= seedAt
\* a reseed of a header the miner had already searched on
C7_Witness ==
    /\ pcM = "pow" /\ fresh
    /\ Len(block.txs) = 2
    /\ seedAt > 0

\* C8: a broadcast calls doRequest exactly once for every distinct host of
\* the replica list other than the local host, and never for the local host.
C8_OneRequestPerHost ==
    \A t \in Tasks :
        LET T == tasks[t] IN
        T.op = "broadcast" =>
            /\ Count(T.sent, Local) = 0
            /\ \A h \in Hosts : Count(T.sent, h) <= 1
            /\ HostsOf(T.sent) \subseteq HostsOf(ring)
            /\ (T.pc = "loop" /\ T.hosts = <<>>) =>
                   HostsOf(T.sent) = HostsOf(ring) \ {Local}
\* two virtual nodes on A, one on B: the broadcast ends after two requests
C8_Witness ==
    /\ ring = <<"A", "A", "B">>
    /\ \E t \in Tasks :
         /\ tasks[t].op = "broadcast"
         /\ tasks[t].pc = "loop"
         /\ tasks[t].hosts = <<>>
         /\ Len(tasks[t].sent) = 2

\* C9: every block RequestBlocks has sent to the engine has a header.
C9_NoSentinelForwarded == \A blk \in bch : blk.hasHeader
\* a request was answered without a block (the sentinel, or end of stream)
\* after an earlier answer was forwarded
C9_Witness ==
    /\ bch # {}
    /\ \E t \in Tasks :
         /\ tasks[t].op = "request"
         /\ tasks[t].pc = "after"
         /\ tasks[t].err = "nil"
         /\ ~tasks[t].blk.hasHeader

\* C10: no interleaving of Shutdown with requests in flight is fatal to the
\* process.
C10_NeverFatal == ~panicked

\* C11: a broadcast never returns an error to its caller, and a host whose
\* request failed does not stop the requests to the hosts after it: the
\* hosts served and the hosts still to serve are all the remote replicas.
C11_BroadcastFireAndForget ==
    \A t \in Tasks :
        LET T == tasks[t] IN
        T.op = "broadcast" =>
            /\ T.ret = "nil"
            /\ T.pc # "idle" =>
                 (HostsOf(T.sent) \cup HostsOf(T.hosts)) \ {Local}
                     = HostsOf(ring) \ {Local}

\* sorted by signature, equal signatures allowed
SortedBySig(s) == \A i, j \in 1..Len(s) : i < j => s[i].sig <= s[j].sig
\* the transactions of xs, in order, whose signature is not in ys
AbsentFrom(xs, ys) == SelectSeq(xs, LAMBDA t : ~TxExists(ys, t))
DiffReturned == di > Len(da)
MatchAt(j) == di <= Len(da) /\ j = FindFrom(db, lastj, da[di].sig) /\ j # 0

\* C12 as stated: for a and b sorted by signature the result is the
\* transactions of a, in a's order, whose signature is not in b, and on a
\* match the cursor moves to the position after the match.
C12_DiffCursorPast ==
    /\ [](DiffReturned /\ SortedBySig(da) /\ SortedBySig(db)
            => diff = AbsentFrom(da, db))
    /\ [][\A j \in 1..Len(db) : (MatchAt(j) /\ di' = di + 1) => lastj' = j + 1]_vars

\* C12 amended: for a and b sorted by signature the result is the
\* transactions of a, in a's order, whose signature is not in b; the cursor
\* only moves forward, and on a match it moves to the matched position
\* itself, not behind it; the result is that of the operator the engine uses.
C12_DiffCursorOnMatch ==
    /\ [](DiffReturned /\ SortedBySig(da) /\ SortedBySig(db)
            => diff = AbsentFrom(da, db))
    /\ [](DiffReturned => diff = DiffTransactionSlices(da, db))
    /\ [][lastj' >= lastj]_vars
    /\ [][\A j \in 1..Len(db) : (MatchAt(j) /\ di' = di + 1) => lastj' = j]_vars
\* a call with a signature twice in a and once, in second place, in b has
\* returned: both transactions matched the same position of b
C12_Witness ==
    /\ DiffReturned
    /\ Len(da) = 2 /\ da[1].sig = da[2].sig
    /\ Len(db) = 2 /\ db[1].sig < db[2].sig /\ db[2].sig = da[1].sig
    /\ diff = <<>>
    /\ lastj = 2

\* C13: a request-block-by-hash that was read whole, for a hash the store
\* does not have, is answered with the empty block, and the connection is
\* still registered and still being served afterwards.
C13_MissAnsweredWithSentinel ==
    \A c \in InConns :
        LET H == handlers[c] IN
        (H.req.k = "reqTypeBlock" /\ H.req.ok /\ ~H.req.v) =>
            /\ H.resp = "sentinel"
            /\ H.pc = "serving"
            /\ c \in inbound
\* a connection was answered with the sentinel while the other one met an
\* error and is about to be closed
C13_Witness ==
    \E c, e \in InConns :
        /\ handlers[c].req.k = "reqTypeBlock"
        /\ handlers[c].req.ok
        /\ ~handlers[c].req.v
        /\ handlers[c].resp = "sentinel"
        /\ handlers[e].pc = "exit"

\* C14: across every step the chain before the step is a prefix of the chain
\* after it, and the header every block of the chain points to is the same
\* before and after.
C14_AppendOnly ==
    [][/\ Len(BlockSlice') >= Len(BlockSlice)
       /\ SubSeq(BlockSlice', 1, Len(BlockSlice)) = BlockSlice
       /\ \A i \in 1..Len(BlockSlice) :
            heap'[BlockSlice[i].hdr] = heap[BlockSlice[i].hdr]]_vars
\* a block this node mined and a block of a peer are both in the chain, and
\* the miner still holds the header of the block it mined
C14_Witness ==
    /\ Len(BlockSlice) = 2
    /\ \E i \in 1..2 : BlockSlice[i].hdr = block.hdr
    /\ \E i \in 1..2 : heap[BlockSlice[i].hdr].origin = PeerKey

\* the miner has sent the block of its present seed: the signature is set
\* at line 536 only, and a reseed brings the unsigned CurrentBlock
SentForSeed == block.sig # NoSig /\ pcM \in {"sel", "pow"}

\* C15: a miner that has sent the sealed block of its seed does not go to
\* the send of line 537 again before it has accepted a new seed, whether or
\* not its backoff timer fires.
C15_OneEmissionPerSeed ==
    [][SentForSeed => pcM' # "send"]_vars

\* C16: the block the miner is sending, and the block the engine receives
\* from it, is the seed the miner accepted last (its header and its
\* transactions) with the signature added.
C16_EmitsLatestSeed ==
    /\ [](pcM = "send" => block = [seed EXCEPT !.sig = block.sig])
    /\ [][(pcM = "send" /\ pcM' = "sel")
            => b' = [seed EXCEPT !.sig = Sign(LocalKey, Hash(heap, seed))]]_vars
\* the miner sends the block of a seed it accepted after an earlier seed:
\* the pending block made after an append, with a carried-forward transaction
C16_Witness ==
    /\ pcM = "send"
    /\ seed.hdr > 1
    /\ Len(seed.txs) > 0
    /\ Len(BlockSlice) > 0

\* C17: at the top of the event loop CurrentBlock names the hash of the
\* chain tip (nothing when the chain is empty) as its previous-hash and the
\* local key as its origin; the diff taken at an append is the difference
\* of CurrentBlock's and the new block's transactions, or empty when their
\* Merkle roots are equal; the pending block made after the append holds
\* exactly that diff, and it is what the miner receives next.
C17_PendingFollowsTip ==
    /\ [](pcE = "select" =>
            /\ heap[CurrentBlock.hdr].prev = TipHash
            /\ heap[CurrentBlock.hdr].origin = LocalKey)
    /\ [][(pcE = "blk_diff" /\ pcE' = "blk_emit") =>
            transDiff' =
              IF heap[b.hdr].merkle = heap[CurrentBlock.hdr].merkle THEN <<>>
              ELSE DiffTransactionSlices(CurrentBlock.txs, b.txs)]_vars
    /\ [][(pcE = "blk_emit" /\ pcE' = "blk_send") =>
            /\ CurrentBlock'.txs = transDiff
            /\ CurrentBlock'.hdr \notin Live(BlockSlice, CurrentBlock, block)
            /\ heap'[CurrentBlock'.hdr].prev = Hash(heap, b)]_vars
    /\ [][(pcE = "blk_send" /\ pcE' = "select") =>
            /\ block' = CurrentBlock
            /\ CurrentBlock' = CurrentBlock]_vars
\* after an append the engine is back at its select, the pending block holds
\* a carried-forward transaction and the miner has received it
C17_Witness ==
    /\ pcE = "select"
    /\ Len(BlockSlice) > 0
    /\ Len(CurrentBlock.txs) > 0
    /\ block.hdr = CurrentBlock.hdr
    /\ block.txs = CurrentBlock.txs

\* the order of the steps for an accepted transaction: while it is offered
\* to the miner it is the last transaction of CurrentBlock, once; when its
\* message is about to go out the miner has received that CurrentBlock; a
\* transaction message goes out only at that point, and is that transaction
C18_Order ==
    /\ [](pcE \in {"tx_send", "tx_emit"} =>
            /\ Len(CurrentBlock.txs) > 0
            /\ CurrentBlock.txs[Len(CurrentBlock.txs)] = tr
            /\ Cardinality({i \in 1..Len(CurrentBlock.txs) :
                              CurrentBlock.txs[i].sig = tr.sig}) = 1)
    /\ [](pcE = "tx_emit" => seed = CurrentBlock)
    /\ [][(nq' # nq /\ nq'.kind = "MESSAGE_SEND_TRANSACTION") =>
            /\ pcE = "tx_emit"
            /\ pcE' = "select"
            /\ nq'.data = TxHash(tr)]_vars
    /\ [][(pcE = "tx_chk" /\ pcE' = "tx_send") =>
            CurrentBlock'.txs = Append(CurrentBlock.txs, tr)]_vars
    /\ [][pcE = "tx_send" => pcE' \in {"tx_send", "tx_emit"}]_vars
    /\ [][pcE = "tx_emit" => pcE' \in {"tx_emit", "select"}]_vars

\* C18: for every transaction the engine accepts, the append, the handoff
\* of the CurrentBlock that holds it and the emit of its one message happen
\* in this order, once each: the order is kept, and an accepted transaction
\* that was appended is handed to the miner and its message goes out.
C18_AcceptedTxRunsThrough ==
    /\ C18_Order
    /\ (pcE = "tx_send") ~> (pcE = "tx_emit")
    /\ (pcE = "tx_emit") ~> (pcE = "select")

\* the connections in the idle lists
Pooled(ob) == UNION {{ob[h][i] : i \in 1..Len(ob[h])} : h \in Hosts}

\* C19: while the transport is running (the pool not yet cleared by
\* Shutdown) every connection in an idle list is open and listed under its
\* own host; an exchange that fails, or meets the end of the stream, closes
\* its connection and leaves it out of the pool; an exchange that succeeds
\* leaves its connection open and returnConn appends it to the idle list of
\* its host.
C19_FailedConnNotPooled ==
    /\ [](~poolNil =>
            \A h \in Hosts : \A i \in 1..Len(outbound[h]) :
                /\ outbound[h][i] \in DOMAIN conns
                /\ ~conns[outbound[h][i]].closed
                /\ conns[outbound[h][i]].host = h)
    /\ [][\A t \in Tasks :
            LET c == tasks[t].conn IN
            /\ (tasks[t].pc = "exchange" /\ tasks'[t].pc = "after") =>
                 /\ c \notin Pooled(outbound')
                 /\ c \in DOMAIN conns' => conns'[c].closed
                 /\ tasks'[t].conn = 0
            /\ (tasks[t].pc = "exchange" /\ tasks'[t].pc = "return") =>
                 /\ tasks'[t].conn = c
                 /\ ~conns'[c].closed
            /\ (tasks[t].pc = "return" /\ tasks'[t].pc = "after") =>
                 /\ outbound'[conns[c].host] = Append(outbound[conns[c].host], c)
                 /\ ~conns'[c].closed]_vars
\* one caller's exchange has failed and its connection is gone while the
\* connection of an earlier, successful exchange is in the idle list
C19_Witness ==
    /\ ~poolNil
    /\ Len(outbound["A"]) = 1
    /\ \E t \in Tasks :
         /\ tasks[t].pc = "after"
         /\ tasks[t].err = "err"
         /\ tasks[t].conn = 0
         /\ DOMAIN conns = {outbound["A"][1]}

\* C20: no two requests hold the same connection, no connection is twice
\* in the idle lists, no connection in an idle list is held by a request,
\* and getConn hands out the head of the idle list of the host and removes
\* it in the same step.
C20_ConnExclusive ==
    /\ [](\A t, u \in Tasks :
            (t # u /\ tasks[t].conn # 0) => tasks[t].conn # tasks[u].conn)
    /\ [](\A h, g \in Hosts : \A i \in 1..Len(outbound[h]), j \in 1..Len(outbound[g]) :
            outbound[h][i] = outbound[g][j] => (h = g /\ i = j))
    /\ [](\A t \in Tasks : tasks[t].conn \notin Pooled(outbound))
    /\ [][\A t \in Tasks :
            (/\ tasks[t].pc = "getconn"
             /\ tasks'[t].pc = "exchange"
             /\ Len(outbound[tasks[t].host]) > 0) =>
                /\ tasks'[t].conn = Head(outbound[tasks[t].host])
                /\ outbound'[tasks[t].host] = Tail(outbound[tasks[t].host])]_vars
\* one request is using a connection to A while another connection to A,
\* given back by the other caller, is idle
C20_Witness ==
    /\ Len(outbound["A"]) = 1
    /\ \E t \in Tasks :
         /\ tasks[t].pc = "exchange"
         /\ tasks[t].host = "A"
         /\ tasks[t].conn # outbound["A"][1]

====
